---- MODULE Spec2Model ----
(***************************************************************************)
(* Model of the COSMIC vitals applet (src/src/app.rs): the YourApp state   *)
(* (popup, stats, the three category toggles), the update() handler of     *)
(* every Message variant, the samplers that turn OS counters into labels,  *)
(* and the two read accessors view() and stat_list()'s is_checked.         *)
(*                                                                         *)
(* Byte counts are carried in units of 10^6 bytes (TLC integers are 32     *)
(* bits wide and 8,000,000,000 does not fit); temperatures are whole       *)
(* degrees.  Strings are TLA+ strings, built with \o as format! builds     *)
(* them.  fl!(id) (the localisation lookup) is modelled by the message id. *)
(***************************************************************************)
EXTENDS Integers, Sequences, FiniteSets, TLC

VARIABLES popup, nextId, stats, ram_stat_toggle, disk_stat_toggle,
          temp_stat_toggle, os, msg

vars == <<popup, nextId, stats, ram_stat_toggle, disk_stat_toggle,
          temp_stat_toggle, os, msg>>

(* ------------------------------ bounds -------------------------------- *)

\* Longest store the model explores (the Vec itself is unbounded).
MaxStats == 2

\* Number of popup ids Id::unique() hands out in the model.
MaxPopups == 2

(* ------------------------------ StatType ------------------------------ *)

Ram(name) == [kind |-> "Ram", name |-> name]

Disk(name) == [kind |-> "Disk", name |-> name]

MaxTemp(name) == [kind |-> "MaxTemp", name |-> name]

Fl(id) == id

\* The keys the model sends in ToggleStat messages.
Keys == {Ram(Fl("used-ram")), Ram("sda1"), Disk("sda1"),
         MaxTemp(Fl("max-temp")), MaxTemp("cpu")}

Stat(stat_type, show, label) ==
    [stat_type |-> stat_type, show |-> show, label |-> label]

(* ------------------------- the operating system ----------------------- *)

\* Memory counters, in units of 10^6 bytes.
MemStates ==
    { [total |-> 16000, used |-> 8000, free |-> 6004, available |-> 7996,
       free_swap |-> 2000, total_swap |-> 2000, used_swap |-> 0],
      [total |-> 16000, used |-> 12346, free |-> 1004, available |-> 3654,
       free_swap |-> 1488, total_swap |-> 2000, used_swap |-> 512] }

\* sysinfo::Disks lists: (name, available space in units of 10^6 bytes).
DiskLists ==
    { << >>,
      << [name |-> "sda1", available |-> 50000] >>,
      << [name |-> "sdb1", available |-> 1000],
         [name |-> "sda1", available |-> 12344] >> }

\* sysinfo::Components lists: (label, temperature in degrees).
SensorLists ==
    { << >>,
      << [label |-> "cpu", temperature |-> 40],
         [label |-> "gpu", temperature |-> 55] >>,
      << [label |-> "gpu", temperature |-> 50],
         [label |-> "cpu", temperature |-> 70] >>,
      << [label |-> "cpu", temperature |-> -5] >> }

OSStates == [mem : MemStates, disks : DiskLists, sensors : SensorLists]

OSInit ==
    [mem |-> [total |-> 16000, used |-> 8000, free |-> 6004,
              available |-> 7996, free_swap |-> 2000, total_swap |-> 2000,
              used_swap |-> 0],
     disks |-> << [name |-> "sda1", available |-> 50000] >>,
     sensors |-> << [label |-> "cpu", temperature |-> 40],
                    [label |-> "gpu", temperature |-> 55] >>]

(* ------------------------------ samplers ------------------------------ *)

TwoDigits(n) == IF n < 10 THEN "0" \o ToString(n) ELSE ToString(n)

\* format!("{:.2}", to_gb(bytes)): bytes / 10^9 rounded to two decimals.
\* With bytes in units of 10^6 the hundredths are (bytes + 5) \div 10.
FormatGb(bytes) ==
    LET hundredths == (bytes + 5) \div 10
    IN  ToString(hundredths \div 100) \o "." \o TwoDigits(hundredths % 100)

get_ram_stats(o) ==
    << <<Fl("total-ram"), FormatGb(o.mem.total) \o " GB">>,
       <<Fl("used-ram"), FormatGb(o.mem.used) \o " GB">>,
       <<Fl("free-ram"), FormatGb(o.mem.free) \o " GB">>,
       <<Fl("available-ram"), FormatGb(o.mem.available) \o " GB">>,
       <<Fl("free-swap"), FormatGb(o.mem.free_swap) \o " GB">>,
       <<Fl("total-swap"), FormatGb(o.mem.total_swap) \o " GB">>,
       <<Fl("used-swap"), FormatGb(o.mem.used_swap) \o " GB">> >>

\* The loop of get_ram_usage over entries i..Len(list): a later match
\* overwrites an earlier one.
RECURSIVE RamUsageLoop(_, _, _, _)
RamUsageLoop(list, i, name, text) ==
    IF i > Len(list) THEN text
    ELSE RamUsageLoop(list, i + 1, name,
                      IF name = list[i][1]
                      THEN "RAM " \o list[i][2] \o " GB"
                      ELSE text)

get_ram_usage(o, name) == RamUsageLoop(get_ram_stats(o), 1, name, "")

RECURSIVE StorageUsageLoop(_, _, _, _)
StorageUsageLoop(disks, i, name, text) ==
    IF i > Len(disks) THEN text
    ELSE StorageUsageLoop(disks, i + 1, name,
                          IF disks[i].name = name
                          THEN "Disk " \o FormatGb(disks[i].available) \o " GB"
                          ELSE text)

get_storage_usage(o, name) == StorageUsageLoop(o.disks, 1, name, "")

\* x.temperature() as u32: a saturating cast, negative readings become 0.
AsU32(t) == IF t < 0 THEN 0 ELSE t

\* Lexicographic order of the names the model uses, for sort_by.
NameOrder == <<"cpu", "gpu", "max-temp", "min-temp", "sda1", "sdb1">>

NameRank(n) == CHOOSE i \in 1..Len(NameOrder) : NameOrder[i] = n

\* Stable insertion of pair p into a list sorted by its first component.
RECURSIVE InsertByName(_, _)
InsertByName(sorted, p) ==
    IF sorted = << >> THEN <<p>>
    ELSE IF NameRank(p[1]) < NameRank(Head(sorted)[1])
         THEN <<p>> \o sorted
         ELSE <<Head(sorted)>> \o InsertByName(Tail(sorted), p)

RECURSIVE SortByName(_)
SortByName(list) ==
    IF list = << >> THEN << >>
    ELSE InsertByName(SortByName(SubSeq(list, 1, Len(list) - 1)),
                      list[Len(list)])

\* Iterator::max / Iterator::min over the u32 readings; 0 stands for None
\* only through unwrap_or(0) below.
RECURSIVE FoldMax(_, _, _)
FoldMax(sensors, i, best) ==
    IF i > Len(sensors) THEN best
    ELSE FoldMax(sensors, i + 1,
                 IF AsU32(sensors[i].temperature) >= best
                 THEN AsU32(sensors[i].temperature) ELSE best)

RECURSIVE FoldMin(_, _, _)
FoldMin(sensors, i, best) ==
    IF i > Len(sensors) THEN best
    ELSE FoldMin(sensors, i + 1,
                 IF AsU32(sensors[i].temperature) < best
                 THEN AsU32(sensors[i].temperature) ELSE best)

\* Mutant of max_temp: the fold keeps the smaller reading.
MaxTempKeepsSmaller(sensors) ==
    IF sensors = << >> THEN 0
    ELSE FoldMin(sensors, 2, AsU32(sensors[1].temperature))

max_temp(sensors) ==
    IF sensors = << >> THEN 0
    ELSE FoldMax(sensors, 2, AsU32(sensors[1].temperature))

min_temp(sensors) ==
    IF sensors = << >> THEN 0
    ELSE FoldMin(sensors, 2, AsU32(sensors[1].temperature))

get_temps(o) ==
    SortByName([i \in 1..Len(o.sensors) |->
                  <<o.sensors[i].label,
                    ToString(AsU32(o.sensors[i].temperature))>>])
    \o << <<Fl("max-temp"), ToString(max_temp(o.sensors))>>,
          <<Fl("min-temp"), ToString(min_temp(o.sensors))>> >>

\* The loop of get_temp_usage: the first match returns.
RECURSIVE TempUsageLoop(_, _, _)
TempUsageLoop(list, i, name) ==
    IF i > Len(list) THEN ""
    ELSE IF name = list[i][1]
         THEN "Temp " \o list[i][2] \o " °C"
         ELSE TempUsageLoop(list, i + 1, name)

get_temp_usage(o, name) == TempUsageLoop(get_temps(o), 1, name)

\* The match on stat.stat_type shared by ToggleStat and Tick.
SampleLabel(o, stat_type) ==
    CASE stat_type.kind = "Ram" -> get_ram_usage(o, stat_type.name)
      [] stat_type.kind = "Disk" -> get_storage_usage(o, stat_type.name)
      [] stat_type.kind = "MaxTemp" -> get_temp_usage(o, stat_type.name)

(* ---------------------------- read accessors -------------------------- *)

\* The loop of view(): the labels pushed into the panel row.
RECURSIVE ViewLoop(_, _, _)
ViewLoop(s, i, children) ==
    IF i > Len(s) THEN children
    ELSE ViewLoop(s, i + 1,
                  IF s[i].show THEN Append(children, s[i].label)
                  ELSE children)

\* Mutant of view: each label is put in front of the row instead of behind.
RECURSIVE ViewPrependLoop(_, _, _)
ViewPrependLoop(s, i, children) ==
    IF i > Len(s) THEN children
    ELSE ViewPrependLoop(s, i + 1,
                         IF s[i].show THEN <<s[i].label>> \o children
                         ELSE children)

ViewPrepend(s) == ViewPrependLoop(s, 1, << >>)

view(s) == ViewLoop(s, 1, << >>)

\* iter().find(...): the first entry with this stat_type, if any.
RECURSIVE Find(_, _, _)
Find(s, i, stat_type) ==
    IF i > Len(s) THEN 0
    ELSE IF s[i].stat_type = stat_type THEN i
         ELSE Find(s, i + 1, stat_type)

is_checked(s, stat_type) ==
    LET w == Find(s, 1, stat_type)
    IN  IF w = 0 THEN FALSE ELSE s[w].show

\* The message a toggler of stat_list emits for value.
TogglerMessage(stat_type, value) ==
    Stat(stat_type, value,
         stat_type.name \o " - " \o (IF value THEN "true" ELSE "false"))

(* ------------------------------ messages ------------------------------ *)

NoStat == Stat(Ram(""), FALSE, "")

Message(type, stat, id, toggle) ==
    [type |-> type, stat |-> stat, id |-> id, toggle |-> toggle]

(* ------------------------------- update ------------------------------- *)

\* Mutant of Retain: the predicate is inverted, the matching entries stay.
RetainKeepsMatching(s, stat) ==
    SelectSeq(s, LAMBDA x : x.stat_type = stat.stat_type)

\* Mutant of Retain: entries are compared by name, not by kind and name.
RetainByName(s, stat) ==
    SelectSeq(s, LAMBDA x : x.stat_type.name # stat.stat_type.name)

\* Vec::retain(|x| x.stat_type != stat.stat_type)
Retain(s, stat) == SelectSeq(s, LAMBDA x : x.stat_type # stat.stat_type)

\* Mutant of ToggleStatStore: the entry is pushed whatever stat.show is.
ToggleStatAlwaysPushes(s, o, stat) ==
    Append(s, Stat(stat.stat_type, stat.show,
                   SampleLabel(o, stat.stat_type)))

ToggleStatStore(s, o, stat) ==
    IF stat.show
    THEN Append(s, Stat(stat.stat_type, stat.show,
                        SampleLabel(o, stat.stat_type)))
    ELSE Retain(s, stat)

\* Mutant of TickStore: entries whose sample came back empty are dropped.
TickDropsMissing(s, o) ==
    SelectSeq([i \in 1..Len(s) |->
                 Stat(s[i].stat_type, s[i].show,
                      SampleLabel(o, s[i].stat_type))],
              LAMBDA x : x.label # "")

\* Mutant of TickStore: the refresh stops at the first empty sample, the
\* entries behind it keep their old labels.
RECURSIVE TickAbortLoop(_, _, _)
TickAbortLoop(s, o, i) ==
    IF i > Len(s) THEN s
    ELSE LET label == SampleLabel(o, s[i].stat_type)
             t == [s EXCEPT ![i].label = label]
         IN  IF label = "" THEN t ELSE TickAbortLoop(t, o, i + 1)

TickAbortsAtMissing(s, o) == TickAbortLoop(s, o, 1)

TickStore(s, o) ==
    [i \in 1..Len(s) |->
        Stat(s[i].stat_type, s[i].show, SampleLabel(o, s[i].stat_type))]

\* Mutant of PopupClosedPopup: any close request clears the popup.
PopupClosedAlwaysClears(p, id) == {}

PopupClosedPopup(p, id) == IF p = {id} THEN {} ELSE p

Init ==
    /\ popup = {}
    /\ nextId = 0
    /\ stats = << >>
    /\ ram_stat_toggle = FALSE
    /\ disk_stat_toggle = FALSE
    /\ temp_stat_toggle = FALSE
    /\ os = OSInit
    /\ msg = Message("Init", NoStat, 0, FALSE)

TogglePopup ==
    /\ IF popup # {}
       THEN /\ popup' = {}
            /\ nextId' = nextId
       ELSE /\ nextId < MaxPopups
            /\ nextId' = nextId + 1
            /\ popup' = {nextId + 1}
    /\ msg' = Message("TogglePopup", NoStat, 0, FALSE)
    /\ UNCHANGED <<stats, ram_stat_toggle, disk_stat_toggle,
                   temp_stat_toggle, os>>

PopupClosed(id) ==
    /\ popup' = PopupClosedPopup(popup, id)
    /\ msg' = Message("PopupClosed", NoStat, id, FALSE)
    /\ UNCHANGED <<nextId, stats, ram_stat_toggle, disk_stat_toggle,
                   temp_stat_toggle, os>>

ToggleStat(stat) ==
    /\ stat.show => Len(stats) < MaxStats
    /\ stats' = ToggleStatStore(stats, os, stat)
    /\ msg' = Message("ToggleStat", stat, 0, FALSE)
    /\ UNCHANGED <<popup, nextId, ram_stat_toggle, disk_stat_toggle,
                   temp_stat_toggle, os>>

Tick ==
    /\ stats' = TickStore(stats, os)
    /\ msg' = Message("Tick", NoStat, 0, FALSE)
    /\ UNCHANGED <<popup, nextId, ram_stat_toggle, disk_stat_toggle,
                   temp_stat_toggle, os>>

RamStatsToggle(toggle) ==
    /\ ram_stat_toggle' = toggle
    /\ msg' = Message("RamStatsToggle", NoStat, 0, toggle)
    /\ UNCHANGED <<popup, nextId, stats, disk_stat_toggle,
                   temp_stat_toggle, os>>

DiskStatsToggle(toggle) ==
    /\ disk_stat_toggle' = toggle
    /\ msg' = Message("DiskStatsToggle", NoStat, 0, toggle)
    /\ UNCHANGED <<popup, nextId, stats, ram_stat_toggle,
                   temp_stat_toggle, os>>

TempStatsToggle(toggle) ==
    /\ temp_stat_toggle' = toggle
    /\ msg' = Message("TempStatsToggle", NoStat, 0, toggle)
    /\ UNCHANGED <<popup, nextId, stats, ram_stat_toggle,
                   disk_stat_toggle, os>>

\* The operating system moves on between two messages.
OSChange ==
    /\ os' \in OSStates \ {os}
    /\ msg' = Message("OSChange", NoStat, 0, FALSE)
    /\ UNCHANGED <<popup, nextId, stats, ram_stat_toggle, disk_stat_toggle,
                   temp_stat_toggle>>

\* The messages the window, the popup and the timer deliver, over a fixed
\* operating-system snapshot.
Next ==
    \/ TogglePopup
    \/ \E id \in 0..nextId : PopupClosed(id)
    \/ \E k \in Keys, value \in BOOLEAN : ToggleStat(TogglerMessage(k, value))
    \/ Tick
    \/ \E toggle \in BOOLEAN : RamStatsToggle(toggle)
    \/ \E toggle \in BOOLEAN : DiskStatsToggle(toggle)
    \/ \E toggle \in BOOLEAN : TempStatsToggle(toggle)

Spec == Init /\ [][Next]_vars

\* The selection store under a changing operating system.
NextStore ==
    \/ \E k \in Keys, value \in BOOLEAN : ToggleStat(TogglerMessage(k, value))
    \/ Tick
    \/ OSChange

SpecStore == Init /\ [][NextStore]_vars

(* ------------------------------- claims ------------------------------- *)

HasKey(s, k) == \E i \in 1..Len(s) : s[i].stat_type = k

\* C1: no two entries of the store share a stat_type; a second
\* ToggleStat(k, show=true) leaves exactly one entry for k.
C1_UniqueKeys ==
    \A i, j \in 1..Len(stats) :
        stats[i].stat_type = stats[j].stat_type => i = j

\* C2: after ToggleStat(k, show=false) the store holds no entry with key k
\* and is_checked(k) is false; if k was absent the store is unchanged.
C2_ToggleOffRemoves ==
    [][(msg'.type = "ToggleStat" /\ ~msg'.stat.show) =>
          LET k == msg'.stat.stat_type
          IN  /\ ~HasKey(stats', k)
              /\ ~is_checked(stats', k)
              /\ (~HasKey(stats, k) => stats' = stats)]_vars

C2_Witness ==
    /\ msg.type = "ToggleStat"
    /\ ~msg.stat.show
    /\ ~HasKey(stats, msg.stat.stat_type)
    /\ Len(stats) >= 1

\* C3: a Tick keeps the length of the store, and every entry's key and show
\* flag at its position; only labels may differ.
C3_TickKeepsEntries ==
    [][msg'.type = "Tick" =>
          /\ Len(stats') = Len(stats)
          /\ \A i \in 1..Len(stats) :
                /\ stats'[i].stat_type = stats[i].stat_type
                /\ stats'[i].show = stats[i].show]_vars

C3_Witness ==
    /\ msg.type = "Tick"
    /\ Len(stats) >= 2
    /\ \E i \in 1..Len(stats) : stats[i].label = ""

ShownIndices(s) == {i \in 1..Len(s) : s[i].show}

NthShown(s, n) ==
    CHOOSE i \in ShownIndices(s) :
        Cardinality({m \in ShownIndices(s) : m <= i}) = n

\* C4: the labels view() renders are exactly the labels of the entries with
\* show = TRUE, in store order, as many as there are such entries.
C4_ViewShowsVisibleLabels ==
    /\ Len(view(stats)) = Cardinality(ShownIndices(stats))
    /\ \A n \in 1..Len(view(stats)) :
          view(stats)[n] = stats[NthShown(stats, n)].label

C4_Witness ==
    /\ Len(stats) >= 2
    /\ stats[1].show
    /\ stats[2].show
    /\ stats[1].label # stats[2].label
    /\ view(stats) = <<stats[1].label, stats[2].label>>

DiskMissing(o, stat_type) ==
    /\ stat_type.kind = "Disk"
    /\ \A j \in 1..Len(o.disks) : o.disks[j].name # stat_type.name

C6_CheckedIffPresent ==
    /\ \A k \in Keys : is_checked(stats, k) <=> HasKey(stats, k)
    /\ \A i \in 1..Len(stats) : stats[i].show

C6_Witness ==
    /\ \E k \in Keys : is_checked(stats, k)
    /\ \E k \in Keys : ~is_checked(stats, k)
    /\ msg.type = "ToggleStat"
    /\ ~msg.stat.show
    /\ stats # << >>

UsedRam == Ram(Fl("used-ram"))

\* C7: ToggleStat(k, show=true) for an absent RAM key appends exactly one
\* entry {k, TRUE, "RAM <v> GB"}, <v> the two-decimal gigabyte figure sampled
\* now, the unit written once.
C7_RamLabelHasOneUnit ==
    [][(/\ msg'.type = "ToggleStat"
        /\ msg'.stat.show
        /\ msg'.stat.stat_type = UsedRam
        /\ ~HasKey(stats, UsedRam)) =>
          stats' = Append(stats,
                          Stat(UsedRam, TRUE,
                               "RAM " \o FormatGb(os.mem.used) \o " GB"))]_vars

MaxKey == MaxTemp(Fl("max-temp"))

Readings(o) == {o.sensors[i].temperature : i \in 1..Len(o.sensors)}

MaxReading(o) ==
    IF Readings(o) = {} THEN 0
    ELSE CHOOSE m \in Readings(o) : \A r \in Readings(o) : r <= m

MaxTempLabel(o) == "Temp " \o ToString(AsU32(MaxReading(o))) \o " °C"

Others(s, k) == SelectSeq(s, LAMBDA x : x.stat_type # k)

C10_Popup ==
    [][/\ Cardinality(popup') <= 1
       /\ msg'.type = "TogglePopup" =>
             /\ popup # {} => popup' = {}
             /\ popup = {} =>
                   /\ popup' # {}
                   /\ \A id \in popup' : id \notin 0..nextId
       /\ msg'.type = "PopupClosed" =>
             popup' = IF msg'.id \in popup THEN {} ELSE popup]_vars

C10_Witness ==
    /\ msg.type = "PopupClosed"
    /\ msg.id >= 1
    /\ popup # {}
    /\ \A id \in popup : msg.id < id

====
